---- MODULE Spec2Model ----
(***************************************************************************)
(* The Order resource of the logistics API: the orders table, the four     *)
(* serializers and the handlers of OrderViewSet.  Every handler is split   *)
(* at the SQL statements it issues (the store runs in autocommit, no       *)
(* handler opens a transaction), so two requests interleave between the    *)
(* SELECT of get(pk=pk) and the UPDATE / INSERT / DELETE that follows.     *)
(*                                                                         *)
(* Strings the code looks into (phone numbers, city and driver names,      *)
(* query parameters) are sequences of one-character strings; strings it    *)
(* only stores or compares are TLA+ strings.  A payload is a record whose  *)
(* DOMAIN is the set of keys the JSON body carries.  Of the model's        *)
(* columns, those with no rule of their own (customer_email,               *)
(* delivery_address, delivery_postal_code, order_description,              *)
(* driver_notes, pickup_time, the coordinates, delivery_photo_url,         *)
(* created_by) follow the path of customer_name, delivery_city or          *)
(* delivery_time and are left out.                                         *)
(***************************************************************************)
EXTENDS Integers, Sequences, FiniteSets, TLC

VARIABLES
    db,       \* the orders table: id -> row
    nextId,   \* the id sequence of the table
    clock,    \* timezone.now() as the last write read it
    req,      \* per worker: the request it is handling
    last,     \* the response sent most recently
    issued,   \* history: id -> the order_number and created_at create stored
    deleted,  \* history: ids for which delete has answered 204
    wrote     \* history: whether the latest step changed the table

vars == <<db, nextId, clock, req, last, issued, deleted, wrote>>

(***************************** bounds **************************************)
MaxId == 2
MaxClock == 3

Workers == {1, 2}

(***************************** values **************************************)
STATUS_CHOICES == {"PENDING", "ASSIGNED", "IN_TRANSIT", "DELIVERED", "CANCELLED"}

\* uuid.uuid4().hex[:8].upper() behind "ORD-": a random draw from 16^8 tokens.
Tokens == {"ORD-0000000A", "ORD-0000000B"}

NoTime == 0
NoDriver == <<"\\N">>

Manila == <<"M", "a", "n", "i", "l", "a">>
Cebu == <<"C", "e", "b", "u">>
Cruz == <<"C", "r", "u", "z">>

GoodPhone == <<"+", "6", "3", "9", "1", "7", "1", "2", "3", "4">>
DashPhone == <<"0", "9", "1", "7", "-", "1", "2", "3", "4", "5">>
WordPhone == <<"a", "b", "c">>

Digits == {"0", "1", "2", "3", "4", "5", "6", "7", "8", "9"}

DeliveryTimes == {9}

\* dict.get(key, default)
DictGet(data, key, default) == IF key \in DOMAIN data THEN data[key] ELSE default

(***************************** the entity **********************************)
\* Order(**validated_data): the column defaults, before save().
NewOrder(data) ==
    [ order_number  |-> "",
      customer_name |-> data.customer_name,
      phone_number  |-> data.phone_number,
      delivery_city |-> DictGet(data, "delivery_city", Manila),
      order_status  |-> "PENDING",
      assigned_driver |-> NoDriver,
      delivery_time |-> NoTime,
      created_at    |-> 0,
      updated_at    |-> 0 ]

\* A slot that holds no instance.
NoOrder ==
    [ order_number |-> "", customer_name |-> "", phone_number |-> <<>>,
      delivery_city |-> <<>>, order_status |-> "", assigned_driver |-> NoDriver,
      delivery_time |-> NoTime, created_at |-> 0, updated_at |-> 0 ]

(***************************** validation **********************************)
AllIn(s, chars) == \A i \in 1..Len(s) : s[i] \in chars

Without(s, chars) == SelectSeq(s, LAMBDA c : c \notin chars)

\* phone_regex, r'^\+?1?\d{9,15}$'
PhoneRegexMatch(s) ==
    LET t == IF Len(s) > 0 /\ s[1] = "+" THEN Tail(s) ELSE s
    IN  /\ AllIn(t, Digits)
        /\ \/ Len(t) \in 9..15
           \/ Len(t) = 16 /\ t[1] = "1"

\* OrderSerializer.validate_phone_number
validate_phone_number(s) ==
    LET t == Without(s, {"+", "-", " "})
    IN  Len(t) > 0 /\ AllIn(t, Digits)

\* The serializer field built for models.CharField(validators=[phone_regex], max_length=17).
PhoneFieldOk(s) == Len(s) > 0 /\ Len(s) <= 17 /\ PhoneRegexMatch(s)

\* OrderSerializer.validate_order_status
validate_order_status(value) == value \in STATUS_CHOICES

\* StatusFieldOk for a column declared without choices.
AnyStatusOk(value) == TRUE

\* The ChoiceField built for order_status (choices=STATUS_CHOICES).
StatusFieldOk(value) == value \in STATUS_CHOICES

SerializerOf(op) ==
    CASE op = "create" -> "OrderCreateSerializer"
      [] op = "update_status" -> "OrderUpdateStatusSerializer"
      [] OTHER -> "OrderSerializer"

\* Writable with order_number = serializers.CharField(read_only=True) left out
\* of OrderSerializer.
WritableWithNumber(ser) ==
    CASE ser = "OrderCreateSerializer" ->
            {"customer_name", "phone_number", "delivery_city"}
      [] ser = "OrderUpdateStatusSerializer" ->
            {"order_status", "delivery_time"}
      [] OTHER ->
            {"order_number", "customer_name", "phone_number", "delivery_city",
             "order_status", "assigned_driver", "delivery_time"}

\* Meta.fields of each serializer less its read-only fields.
Writable(ser) ==
    CASE ser = "OrderCreateSerializer" ->
            {"customer_name", "phone_number", "delivery_city"}
      [] ser = "OrderUpdateStatusSerializer" ->
            {"order_status", "delivery_time"}
      [] OTHER ->
            {"customer_name", "phone_number", "delivery_city", "order_status",
             "assigned_driver", "delivery_time"}

\* Columns without a default and without blank=True: required unless partial.
Required(ser) == Writable(ser) \cap {"customer_name", "phone_number"}

\* run_validation of every field, then validate_<field>: the keys in error.
FieldErrors(ser, data, partial) ==
    LET present == DOMAIN data \cap Writable(ser)
        missing == IF partial THEN {} ELSE Required(ser) \ DOMAIN data
        phone == IF "phone_number" \in present
                    /\ ~ ( /\ PhoneFieldOk(data.phone_number)
                           /\ (ser = "OrderSerializer" => validate_phone_number(data.phone_number)) )
                 THEN {"phone_number"} ELSE {}
        status == IF "order_status" \in present
                     /\ ~ ( /\ StatusFieldOk(data.order_status)
                            /\ (ser = "OrderSerializer" => validate_order_status(data.order_status)) )
                  THEN {"order_status"} ELSE {}
    IN  missing \cup phone \cup status

\* to_internal_value: the writable keys of the payload.
ValidatedData(ser, data) ==
    [k \in DOMAIN data \cap Writable(ser) |-> data[k]]

\* DeliveredNeedsTime for a validate() that returns data unchecked.
NeverNeedsTime(vdata) == FALSE

\* OrderUpdateStatusSerializer.validate
DeliveredNeedsTime(vdata) ==
    DictGet(vdata, "order_status", "") = "DELIVERED" /\ DictGet(vdata, "delivery_time", NoTime) = NoTime

DeliveredMessage == "Delivery time is required when marking order as delivered"

\* Errors for an OrderSerializer that had the validate() of
\* OrderUpdateStatusSerializer too.
ErrorsWithRuleEverywhere(ser, data, partial) ==
    LET fe == FieldErrors(ser, data, partial)
    IN  IF fe # {} THEN fe
        ELSE IF ser # "OrderCreateSerializer" /\ DeliveredNeedsTime(ValidatedData(ser, data))
             THEN {"non_field_errors"}
        ELSE {}

\* serializer.errors of is_valid(): field errors first, validate() only without any.
Errors(ser, data, partial) ==
    LET fe == FieldErrors(ser, data, partial)
    IN  IF fe # {} THEN fe
        ELSE IF ser = "OrderUpdateStatusSerializer" /\ DeliveredNeedsTime(ValidatedData(ser, data))
             THEN {"non_field_errors"}
        ELSE {}

\* ModelSerializer.update: setattr for every validated key.
SetAttrs(inst, vdata) ==
    [f \in DOMAIN inst |-> IF f \in DOMAIN vdata THEN vdata[f] ELSE inst[f]]

(***************************** requests ************************************)
NoData == [k \in {} |-> ""]

\* An order_number sent by a caller.
CallerNumber == "ORD-CALLER01"

CreatePayloads ==
    { [customer_name |-> "Ana", phone_number |-> GoodPhone],
      [customer_name |-> "Ana", phone_number |-> GoodPhone,
       order_status |-> "DELIVERED", order_number |-> CallerNumber],
      [customer_name |-> "Ana", phone_number |-> DashPhone],
      [phone_number |-> GoodPhone] }

StatusPayloads ==
    {[order_status |-> s] : s \in {"DELIVERED", "SHIPPED"}}
    \cup {[delivery_time |-> t] : t \in DeliveryTimes \cup {NoTime}}
    \cup {[order_status |-> "DELIVERED", delivery_time |-> t] : t \in DeliveryTimes}
    \cup { [order_status |-> "IN_TRANSIT", customer_name |-> "Ben",
            order_number |-> CallerNumber] }

PatchPayloads ==
    { [customer_name |-> "Ben", order_number |-> CallerNumber],
      [order_status |-> "DELIVERED"],
      [order_status |-> "SHIPPED"],
      [phone_number |-> WordPhone] }

PutPayloads ==
    { [customer_name |-> "Ben", phone_number |-> GoodPhone, order_number |-> CallerNumber],
      [customer_name |-> "Ana", phone_number |-> GoodPhone, order_status |-> "DELIVERED"],
      [customer_name |-> "Ana"] }

PayloadsOf(op) ==
    CASE op = "update" -> PutPayloads
      [] op = "partial_update" -> PatchPayloads
      [] op = "update_status" -> StatusPayloads
      [] OTHER -> {NoData}

UpdateOps == {"update", "partial_update", "update_status"}

Idle == [pc |-> "idle", op |-> "", pk |-> 0, data |-> NoData, inst |-> NoOrder, late |-> FALSE]

NotFound == "Order not found"

\* What a handler returns, with the history the properties read: late, whether
\* a delete of pk had answered 204 before this request began; row, what the
\* handler's second statement found under pk ("same": the row get() had read,
\* "changed": another one, "gone": none).
Response(op, pk, data, code, body, errors, late, row) ==
    [ op |-> op, pk |-> pk, data |-> data, code |-> code, body |-> body,
      errors |-> errors, late |-> late, row |-> row ]

Found(table, pk, inst) ==
    IF pk \notin DOMAIN table THEN "gone"
    ELSE IF table[pk] = inst THEN "same" ELSE "changed"

\* The unique index on order_number and the primary key.
InsertOk(table, id, row) ==
    /\ id \notin DOMAIN table
    /\ \A i \in DOMAIN table : table[i].order_number # row.order_number

Put(table, id, row) ==
    [i \in DOMAIN table \cup {id} |-> IF i = id THEN row ELSE table[i]]

Remove(table, id) == [i \in DOMAIN table \ {id} |-> table[i]]

\* Outcome for a handler that saves the keys that passed and answers the errors
\* of the others.
OutcomeKeepingValidKeys(ser, data, partial) ==
    LET errs == Errors(ser, data, partial)
    IN  [ code |-> IF errs = {} THEN 200 ELSE 400, errors |-> errs, save |-> TRUE,
          vdata |-> [k \in (DOMAIN data \cap Writable(ser)) \ errs |-> data[k]] ]

\* if serializer.is_valid(): serializer.save(); return Response(serializer.data)
\* return Response(serializer.errors, status=400)
\* of update, partial_update and update_status: the status answered, whether
\* save() runs, and the validated data it is given.
Outcome(ser, data, partial) ==
    LET errs == Errors(ser, data, partial)
    IN  IF errs = {}
        THEN [code |-> 200, errors |-> {}, save |-> TRUE, vdata |-> ValidatedData(ser, data)]
        ELSE [code |-> 400, errors |-> errs, save |-> FALSE, vdata |-> NoData]

\* UpdateRow for a save(update_fields=...) that writes the validated keys alone.
UpdateSentColumns(table, pk, inst, vdata, now) ==
    Put(table, pk, [SetAttrs(table[pk], vdata) EXCEPT !.updated_at = now])

\* ModelSerializer.update then Model.save(): setattr of every validated key on
\* the instance the handler read, and UPDATE ... WHERE id = pk of every column.
UpdateRow(table, pk, inst, vdata, now) ==
    Put(table, pk, [SetAttrs(inst, vdata) EXCEPT !.updated_at = now])

Init ==
    /\ db = [i \in {} |-> NoOrder]
    /\ nextId = 1
    /\ clock = 0
    /\ req = [r \in Workers |-> Idle]
    /\ last = Response("", 0, NoData, 0, "", {}, FALSE, "")
    /\ issued = [i \in {} |-> [order_number |-> "", created_at |-> 0]]
    /\ deleted = {}
    /\ wrote = FALSE

\* OrderViewSet.create, payload rejected by OrderCreateSerializer.
CreateInvalid(r, data) ==
    /\ req[r].pc = "idle"
    /\ Errors("OrderCreateSerializer", data, FALSE) # {}
    /\ last' = Response("create", 0, data, 400, "errors",
                        Errors("OrderCreateSerializer", data, FALSE), FALSE, "")
    /\ UNCHANGED <<db, nextId, clock, req, issued, deleted>>
    /\ wrote' = (db' # db)

\* OrderViewSet.create, payload accepted: Order.save() draws the number and
\* the INSERT takes the next id; a number already stored fails the INSERT.
Create(r, data, token) ==
    /\ req[r].pc = "idle"
    /\ Errors("OrderCreateSerializer", data, FALSE) = {}
    /\ nextId <= MaxId
    /\ clock < MaxClock
    /\ LET now == clock + 1
           row == [NewOrder(ValidatedData("OrderCreateSerializer", data)) EXCEPT
                     !.order_number = token, !.created_at = now, !.updated_at = now]
       IN  /\ nextId' = nextId + 1
           /\ IF InsertOk(db, nextId, row)
              THEN /\ db' = Put(db, nextId, row)
                   /\ clock' = now
                   /\ issued' = Put(issued, nextId,
                                    [order_number |-> token, created_at |-> now])
                   /\ last' = Response("create", nextId, data, 201, "order", {}, FALSE, "")
              ELSE /\ last' = Response("create", 0, data, 500, "IntegrityError", {},
                                       FALSE, "")
                   /\ UNCHANGED <<db, clock, issued>>
    /\ UNCHANGED <<req, deleted>>
    /\ wrote' = (db' # db)

\* OrderViewSet.retrieve
Retrieve(r, pk) ==
    /\ req[r].pc = "idle"
    /\ last' = IF pk \in DOMAIN db
               THEN Response("retrieve", pk, NoData, 200, "order", {}, pk \in deleted, "")
               ELSE Response("retrieve", pk, NoData, 404, NotFound, {}, pk \in deleted, "")
    /\ UNCHANGED <<db, nextId, clock, req, issued, deleted>>
    /\ wrote' = (db' # db)

\* order = self.get_queryset().get(pk=pk), the first statement of update,
\* partial_update, destroy and update_status alike: from here on the handler
\* holds the instance.  Which of the four the request is, and its body, are
\* drawn where the handler first uses them.
Load(r, pk) ==
    /\ req[r].pc = "idle"
    /\ pk \in DOMAIN db
    /\ req' = [req EXCEPT ![r] = [pc |-> "loaded", op |-> "", pk |-> pk, data |-> NoData,
                                  inst |-> db[pk], late |-> pk \in deleted]]
    /\ UNCHANGED <<db, nextId, clock, last, issued, deleted>>
    /\ wrote' = (db' # db)

\* except Order.DoesNotExist of the same four handlers.
LoadNotFound(r, op, pk) ==
    /\ req[r].pc = "idle"
    /\ pk \notin DOMAIN db
    /\ last' = Response(op, pk, NoData, 404, NotFound, {}, pk \in deleted, "")
    /\ UNCHANGED <<db, nextId, clock, req, issued, deleted>>
    /\ wrote' = (db' # db)

\* The rest of update, partial_update and update_status once the instance is
\* read.  With no row matched by its UPDATE, Model.save() goes on to an INSERT.
Update(r, op, data) ==
    LET q == req[r]
        out == Outcome(SerializerOf(op), data, op # "update")
        now == clock + 1
        found == Found(db, q.pk, q.inst)
    IN  /\ q.pc = "loaded"
        /\ IF ~out.save
           THEN /\ last' = Response(op, q.pk, data, out.code,
                                    IF "non_field_errors" \in out.errors
                                    THEN DeliveredMessage ELSE "errors",
                                    out.errors, q.late, found)
                /\ req' = [req EXCEPT ![r] = Idle]
                /\ UNCHANGED <<db, clock>>
           ELSE /\ clock < MaxClock
                /\ IF q.pk \in DOMAIN db
                   THEN /\ db' = UpdateRow(db, q.pk, q.inst, out.vdata, now)
                        /\ clock' = now
                        /\ last' = Response(op, q.pk, data, out.code,
                                            IF out.code = 200 THEN "order" ELSE "errors",
                                            out.errors, q.late, found)
                        /\ req' = [req EXCEPT ![r] = Idle]
                   ELSE /\ req' = [req EXCEPT ![r] =
                                     [q EXCEPT !.pc = "insert", !.op = op, !.data = data,
                                               !.inst = SetAttrs(q.inst, out.vdata)]]
                        /\ UNCHANGED <<db, clock, last>>
        /\ UNCHANGED <<nextId, issued, deleted>>
        /\ wrote' = (db' # db)

\* The INSERT of Model.save() after its UPDATE matched no row: every column of
\* the instance under its old id, created_at (auto_now_add) and updated_at
\* (auto_now) taken anew.
Insert(r) ==
    LET q == req[r]
        now == clock + 1
        row == [q.inst EXCEPT !.created_at = now, !.updated_at = now]
    IN  /\ q.pc = "insert"
        /\ clock < MaxClock
        /\ IF InsertOk(db, q.pk, row)
           THEN /\ db' = Put(db, q.pk, row)
                /\ clock' = now
                /\ last' = Response(q.op, q.pk, q.data, 200, "order", {}, q.late, "gone")
           ELSE /\ last' = Response(q.op, q.pk, q.data, 500, "IntegrityError", {},
                                    q.late, "gone")
                /\ UNCHANGED <<db, clock>>
        /\ req' = [req EXCEPT ![r] = Idle]
        /\ UNCHANGED <<nextId, issued, deleted>>
        /\ wrote' = (db' # db)

\* order.delete() of OrderViewSet.destroy: DELETE ... WHERE id = pk, 204 whatever
\* the number of rows it removed.
Delete(r) ==
    LET q == req[r]
    IN  /\ q.pc = "loaded"
        /\ db' = Remove(db, q.pk)
        /\ deleted' = deleted \cup {q.pk}
        /\ last' = Response("destroy", q.pk, NoData, 204, "Order deleted successfully", {},
                            q.late, Found(db, q.pk, q.inst))
        /\ req' = [req EXCEPT ![r] = Idle]
        /\ UNCHANGED <<nextId, clock, issued>>
        /\ wrote' = (db' # db)

Next ==
    \E r \in Workers :
        \/ \E data \in CreatePayloads : CreateInvalid(r, data)
        \/ \E data \in CreatePayloads, token \in Tokens : Create(r, data, token)
        \/ \E pk \in 1..MaxId : Retrieve(r, pk)
        \/ \E pk \in 1..MaxId : Load(r, pk)
        \/ \E op \in UpdateOps \cup {"destroy"}, pk \in 1..MaxId : LoadNotFound(r, op, pk)
        \/ \E op \in UpdateOps : \E data \in PayloadsOf(op) : Update(r, op, data)
        \/ Insert(r)
        \/ Delete(r)

Spec == Init /\ [][Next]_vars

\* The requests of a client that never calls replace or partial_update:
\* create, retrieve, update_status and destroy.
StatusNext ==
    \E r \in Workers :
        \/ \E data \in CreatePayloads : CreateInvalid(r, data)
        \/ \E data \in CreatePayloads, token \in Tokens : Create(r, data, token)
        \/ \E pk \in 1..MaxId : Retrieve(r, pk)
        \/ \E pk \in 1..MaxId : Load(r, pk)
        \/ \E op \in {"update_status", "destroy"}, pk \in 1..MaxId : LoadNotFound(r, op, pk)
        \/ \E data \in StatusPayloads : Update(r, "update_status", data)
        \/ Insert(r)
        \/ Delete(r)

StatusSpec == Init /\ [][StatusNext]_vars

(***************************** list ****************************************)
LowerCase == <<"a", "b", "c", "d", "e", "f", "g", "h", "i", "j", "k", "l", "m",
               "n", "o", "p", "q", "r", "s", "t", "u", "v", "w", "x", "y", "z">>
UpperCase == <<"A", "B", "C", "D", "E", "F", "G", "H", "I", "J", "K", "L", "M",
               "N", "O", "P", "Q", "R", "S", "T", "U", "V", "W", "X", "Y", "Z">>

\* str.upper() and SQL UPPER(): the upper-case letter of every lower-case one.
UpperOf == [k \in 1..Len(LowerCase) |-> UpperCase[k]]
ToUpper ==
    [c \in {LowerCase[k] : k \in 1..Len(LowerCase)} |->
        UpperOf[CHOOSE k \in 1..Len(LowerCase) : LowerCase[k] = c]]

upper(s) == [i \in 1..Len(s) |-> IF s[i] \in DOMAIN ToUpper THEN ToUpper[s[i]] ELSE s[i]]

\* col LIKE '%needle%'
Like(col, needle) ==
    \E k \in 0..(Len(col) - Len(needle)) : \A i \in 1..Len(needle) : col[k + i] = needle[i]

\* icontains for the __contains lookup.
contains(col, needle) == col # NoDriver /\ Like(col, needle)

\* The __icontains lookup: UPPER(col) LIKE UPPER('%needle%'), never true of NULL.
icontains(col, needle) == col # NoDriver /\ Like(upper(col), upper(needle))

\* The text of a stored order_status.
Spelling(status) ==
    CASE status = "PENDING" -> <<"P", "E", "N", "D", "I", "N", "G">>
      [] status = "ASSIGNED" -> <<"A", "S", "S", "I", "G", "N", "E", "D">>
      [] status = "IN_TRANSIT" -> <<"I", "N", "_", "T", "R", "A", "N", "S", "I", "T">>
      [] status = "DELIVERED" -> <<"D", "E", "L", "I", "V", "E", "R", "E", "D">>
      [] status = "CANCELLED" -> <<"C", "A", "N", "C", "E", "L", "L", "E", "D">>
      [] OTHER -> <<>>

\* request.query_params.get(name, None) followed by `if value:`.
Given(params, name) == name \in DOMAIN params /\ params[name] # <<>>

\* The queryset of OrderViewSet.list after its three optional filter() calls:
\* the ids of its rows (their order, -created_at, is not modelled).
ListQuery(table, params) ==
    LET q0 == DOMAIN table
        q1 == IF Given(params, "status")
              THEN {i \in q0 : Spelling(table[i].order_status) = upper(params.status)}
              ELSE q0
        q2 == IF Given(params, "driver")
              THEN {i \in q1 : icontains(table[i].assigned_driver, params.driver)}
              ELSE q1
    IN  IF Given(params, "city")
        THEN {i \in q2 : icontains(table[i].delivery_city, params.city)}
        ELSE q2

\* A query parameter that is not sent.
Unsent == <<"\\N">>

StatusParams ==
    { <<>>, <<"p", "e", "n", "d", "i", "n", "g">>, <<"P", "E", "N", "D", "I", "N", "G">>,
      <<"D", "e", "l", "i", "v", "e", "r", "e", "d">>, <<"P", "E", "N", "D">> }
DriverParams == { <<"R", "U">>, <<"x">> }
CityParams == { <<"m", "a", "n">>, <<"C", "E", "B", "U">> }

QueryString(status, driver, city) ==
    LET sent == [status |-> status, driver |-> driver, city |-> city]
    IN  [k \in {n \in DOMAIN sent : sent[n] # Unsent} |-> sent[k]]

QueryStrings ==
    { QueryString(s, d, c) : s \in StatusParams \cup {Unsent},
                             d \in DriverParams \cup {Unsent},
                             c \in CityParams \cup {Unsent} }

\* OrderViewSet.list
List(r, params) ==
    /\ req[r].pc = "idle"
    /\ last' = [ op |-> "list", params |-> params, code |-> 200,
                 count |-> Cardinality(ListQuery(db, params)),
                 results |-> ListQuery(db, params) ]
    /\ UNCHANGED <<db, nextId, clock, req, issued, deleted>>
    /\ wrote' = (db' # db)

\* Tables of two orders as create and partial_update leave them.
ListRows ==
    { [ order_number |-> "", customer_name |-> "Ana", phone_number |-> GoodPhone,
        delivery_city |-> c, order_status |-> s, assigned_driver |-> d,
        delivery_time |-> NoTime, created_at |-> 1, updated_at |-> 2 ] :
      c \in {Manila, Cebu}, s \in {"PENDING", "DELIVERED"}, d \in {NoDriver, Cruz} }

ListInit ==
    /\ \E a \in ListRows, b \in ListRows :
          db = <<[a EXCEPT !.order_number = "ORD-0000000A"],
                 [b EXCEPT !.order_number = "ORD-0000000B"]>>
    /\ nextId = 3
    /\ clock = 2
    /\ req = [r \in Workers |-> Idle]
    /\ last = Response("", 0, NoData, 0, "", {}, FALSE, "")
    /\ issued = [i \in DOMAIN db |-> [order_number |-> db[i].order_number,
                                       created_at |-> db[i].created_at]]
    /\ deleted = {}
    /\ wrote = FALSE

ListNext == \E r \in Workers : \E params \in QueryStrings : List(r, params)

ListSpec == ListInit /\ [][ListNext]_vars

(***************************** properties **********************************)
\* C1: no two stored orders share an order_number, and every stored order has
\* the order_number that create gave it, whatever later payloads carried.
OrderNumberUniqueAndFixed ==
    /\ \A i, j \in DOMAIN db : i # j => db[i].order_number # db[j].order_number
    /\ \A i \in DOMAIN db : db[i].order_number = issued[i].order_number

\* An update whose payload carried an order_number was accepted while two
\* orders were stored.
OrderNumberSentAndKept ==
    /\ Cardinality(DOMAIN db) >= 2
    /\ last.op \in UpdateOps
    /\ last.code = 200
    /\ "order_number" \in DOMAIN last.data

\* C2: every valid creation payload is answered 201 and stores an order whose
\* order_number is non-empty, held by no other order and not the caller's,
\* whose status is PENDING and whose other columns have the entity defaults.
CreateAlwaysSucceeds ==
    (last.op = "create" /\ Errors("OrderCreateSerializer", last.data, FALSE) = {}) =>
        /\ last.code = 201
        /\ last.pk \in DOMAIN db
        /\ db[last.pk].order_number # ""
        /\ db[last.pk].order_number # DictGet(last.data, "order_number", "")
        /\ \A i \in DOMAIN db \ {last.pk} : db[i].order_number # db[last.pk].order_number
        /\ db[last.pk].order_status = "PENDING"
        /\ db[last.pk].assigned_driver = NoDriver
        /\ db[last.pk].delivery_time = NoTime

\* C3: every stored order_status is one of the five choices; an update whose
\* payload carries another value is answered 400 and writes nothing; create
\* stores PENDING.
StatusAlwaysValid ==
    /\ \A i \in DOMAIN db : db[i].order_status \in STATUS_CHOICES
    /\ ( /\ last.op \in UpdateOps
         /\ last.code # 404
         /\ "order_status" \in DOMAIN last.data
         /\ last.data.order_status \notin STATUS_CHOICES )
       => (last.code = 400 /\ ~wrote)
    /\ (last.op = "create" /\ last.code = 201) => db[last.pk].order_status = "PENDING"

\* update_status has just refused a status outside the choices.
BadStatusRefused ==
    /\ last.op = "update_status"
    /\ last.code = 400
    /\ DictGet(last.data, "order_status", "") = "SHIPPED"
    /\ last.pk \in DOMAIN db

\* C4: update_status to DELIVERED with no delivery_time in the payload, on an
\* order that stores none, is answered 400 with the documented message and
\* writes nothing; with a delivery_time in the payload, on an order still
\* stored, it is answered 200 and the order holds DELIVERED and that time.
DeliveredRuleOfUpdateStatus ==
    (last.op = "update_status" /\ last.row \in {"same", "changed"}
     /\ DictGet(last.data, "order_status", "") = "DELIVERED") =>
        /\ ("delivery_time" \notin DOMAIN last.data /\ db[last.pk].delivery_time = NoTime)
           => (last.code = 400 /\ last.body = DeliveredMessage /\ ~wrote)
        /\ DictGet(last.data, "delivery_time", NoTime) # NoTime
           => /\ last.code = 200
              /\ db[last.pk].order_status = "DELIVERED"
              /\ db[last.pk].delivery_time = last.data.delivery_time

\* DELIVERED without a delivery_time anywhere has just been refused.
DeliveredRefused ==
    /\ last.op = "update_status"
    /\ last.row = "same"
    /\ DOMAIN last.data = {"order_status"}
    /\ last.data.order_status = "DELIVERED"
    /\ db[last.pk].delivery_time = NoTime
    /\ last.body = DeliveredMessage

\* C5: update_status with {order_status: DELIVERED} alone, on an order that
\* stores a delivery_time, is answered 200 and the order becomes DELIVERED.
DeliveredWithStoredTimeAccepted ==
    ( /\ last.op = "update_status"
      /\ last.row = "same"
      /\ DOMAIN last.data = {"order_status"}
      /\ last.data.order_status = "DELIVERED"
      /\ db[last.pk].delivery_time # NoTime )
    => (last.code = 200 /\ db[last.pk].order_status = "DELIVERED")

\* C6: a request answered 400 or 404 has changed no row of the table.
FailedRequestsChangeNothing ==
    last.code \in {400, 404} => ~wrote

\* An update of a stored order has just been answered 400.
UpdateRefused ==
    /\ last.code = 400
    /\ last.op \in UpdateOps
    /\ last.row = "same"

\* C7: a request for an id that began after delete answered 204 for that id is
\* answered 404 "Order not found", and create never gives out a deleted id.
DeletedStaysGone ==
    /\ (last.late /\ last.op \in UpdateOps \cup {"retrieve", "destroy"})
       => (last.code = 404 /\ last.body = NotFound)
    /\ (last.op = "create" /\ last.code = 201) => last.pk \notin deleted

\* C9: every stored order has the created_at create gave it, updated_at is not
\* before created_at, and an accepted update leaves updated_at at the time of
\* its write.
TimestampsKept ==
    /\ \A i \in DOMAIN db :
          /\ db[i].created_at = issued[i].created_at
          /\ db[i].updated_at >= db[i].created_at
    /\ (last.op \in UpdateOps /\ last.code = 200) => db[last.pk].updated_at = clock

\* C10: an update with a valid payload that finds its row is answered 200
\* whether or not the row is still the one it read, and the row it leaves is
\* the one it read with its own payload applied: a column it did not send has
\* the value it read, not the value another request stored in between.
LastWriteWins ==
    [][\A r \in Workers :
         ( /\ req[r].pc = "loaded"
           /\ req'[r].pc = "idle"
           /\ last'.op \in UpdateOps
           /\ req[r].pk \in DOMAIN db
           /\ Errors(SerializerOf(last'.op), last'.data, last'.op # "update") = {} )
         => /\ last'.code = 200
            /\ \A f \in DOMAIN req[r].inst :
                  db'[req[r].pk][f] =
                      IF f \in DOMAIN last'.data \cap Writable(SerializerOf(last'.op))
                      THEN last'.data[f]
                      ELSE IF f = "updated_at" THEN clock'
                      ELSE req[r].inst[f]]_vars

\* An update was accepted over a row that another request had changed since
\* the update read it.
StaleUpdateAccepted ==
    /\ last.op \in UpdateOps
    /\ last.code = 200
    /\ last.row = "changed"

\* C11: a replace or partial_update whose payload, valid field by field, sets
\* order_status to DELIVERED and carries no delivery_time, on an order read
\* without a delivery_time and still stored, is answered 200 and leaves the
\* order DELIVERED with no delivery_time; the same payload through
\* update_status is answered 400 with the documented message and writes nothing.
DeliveredRuleOnlyInUpdateStatus ==
    [][\A r \in Workers :
         ( /\ req[r].pc = "loaded"
           /\ req'[r].pc = "idle"
           /\ last'.op \in UpdateOps
           /\ req[r].pk \in DOMAIN db
           /\ req[r].inst.delivery_time = NoTime
           /\ DictGet(last'.data, "order_status", "") = "DELIVERED"
           /\ "delivery_time" \notin DOMAIN last'.data
           /\ FieldErrors(SerializerOf(last'.op), last'.data, last'.op # "update") = {} )
         => IF last'.op = "update_status"
            THEN /\ last'.code = 400
                 /\ last'.body = DeliveredMessage
                 /\ db' = db
            ELSE /\ last'.code = 200
                 /\ db'[req[r].pk].order_status = "DELIVERED"
                 /\ db'[req[r].pk].delivery_time = NoTime]_vars

\* A replace or partial_update has just stored DELIVERED with no delivery_time.
DeliveredStoredWithoutTime ==
    /\ last.op \in {"update", "partial_update"}
    /\ last.code = 200
    /\ last.row = "same"
    /\ DictGet(last.data, "order_status", "") = "DELIVERED"
    /\ "delivery_time" \notin DOMAIN last.data
    /\ db[last.pk].order_status = "DELIVERED"
    /\ db[last.pk].delivery_time = NoTime

\* C12: an update_status answered 200 leaves the set of stored orders and every
\* other order as they were, and in its own order changes nothing but
\* updated_at and the keys of its payload that are in its writable subset:
\* every other column has the value that was stored before the request saved.
UpdateStatusFrame ==
    [][\A r \in Workers :
         ( /\ req[r].pc \in {"loaded", "insert"}
           /\ req'[r].pc = "idle"
           /\ last'.op = "update_status"
           /\ last'.code = 200 )
         => /\ DOMAIN db' = DOMAIN db
            /\ \A i \in DOMAIN db \ {req[r].pk} : db'[i] = db[i]
            /\ req[r].pk \in DOMAIN db
            /\ \A f \in DOMAIN db[req[r].pk] :
                  f \notin (DOMAIN last'.data \cap Writable("OrderUpdateStatusSerializer"))
                            \cup {"updated_at"}
                  => db'[req[r].pk][f] = db[req[r].pk][f]]_vars

\* C13: with no replace and no partial_update in the history, every stored
\* order whose order_status is DELIVERED has a delivery_time.
DeliveredHasTime ==
    \A i \in DOMAIN db : db[i].order_status = "DELIVERED" => db[i].delivery_time # NoTime

\* C14: an order whose delete was answered 204 is stored no more, whatever
\* update had read it before the delete, and a retrieve begun after the 204 is
\* answered 404.
DeleteNeverUndone ==
    /\ \A i \in deleted : i \notin DOMAIN db
    /\ (last.op = "retrieve" /\ last.late) => last.code = 404

\* Letter case folded away, for the substring filters.
ToLower ==
    [c \in {UpperCase[k] : k \in 1..Len(UpperCase)} |->
        LowerCase[CHOOSE k \in 1..Len(UpperCase) : UpperCase[k] = c]]

Fold(s) == [i \in 1..Len(s) |-> IF s[i] \in DOMAIN ToLower THEN ToLower[s[i]] ELSE s[i]]

SubstringIgnoringCase(text, part) ==
    /\ text # NoDriver
    /\ \E k \in 0..(Len(text) - Len(part)) :
          SubSeq(Fold(text), k + 1, k + Len(part)) = Fold(part)

Passes(o, params) ==
    /\ Given(params, "status") => Spelling(o.order_status) = upper(params.status)
    /\ Given(params, "driver") => SubstringIgnoringCase(o.assigned_driver, params.driver)
    /\ Given(params, "city") => SubstringIgnoringCase(o.delivery_city, params.city)

====
